---- MODULE Spec2Model ----
(***************************************************************************)
(* A model of lib/oras.py: pull_uenv (the pull orchestrator with its       *)
(* sqfs progress monitor loop and its two exception handlers) and          *)
(* run_command, together with the child processes they launch through      *)
(* run_command_internal.  Text is modelled as sequences of tokens: an      *)
(* address is a sequence of characters, stderr a sequence of words.        *)
(***************************************************************************)
EXTENDS Integers, Sequences, FiniteSets, TLC

\* ---------------------------------------------------------------- bounds
MaxTicks == 2        \* iterations of the monitor loop that are explored
MaxManifests == 2    \* longest manifest list in a discovery response
PipeCap == 1         \* output a captured pipe holds while nobody reads it

\* ------------------------------------------------------------ input sets
Absent == -1         \* os.path.exists(sqfs_path) is False

\* Expected totals (target.size, in MB), 0 included, and the sizes (in MB)
\* store.squashfs may have, one of them above every expected total.
Totals == {0, 1}

Sizes == {0, 1, 2}

\* The source addresses tried: base:tag, one with a ':' in the base, and
\* one with no ':' at all.
Addresses ==
    { <<"r", ":", "t">>, <<"r", ":", "p", ":", "t">>, <<"r">> }

Digests == {"abc", "def"}

\* One manifest record: its "digest" field, or a record without that key.
ManifestEntries == Digests \cup {"nodigest"}

RECURSIVE SeqsUpTo(_, _)
SeqsUpTo(S, n) ==
    IF n = 0 THEN { <<>> }
    ELSE LET shorter == SeqsUpTo(S, n - 1)
         IN  shorter \cup { Append(s, x) : s \in shorter, x \in S }

\* Captured stderr of a child; the word "PERM" stands for the text
\* "client does not have permission for manifest".
Stderrs == { <<>>, <<"x">>, <<"x", "PERM">> }

\* What a discovery child may write to stdout, by what json.loads makes of
\* it: text that is no JSON, an object without "manifests", or an object
\* whose "manifests" value is of the given JSON type.
Doc(kind, list) == [kind |-> kind, list |-> list]

NoDoc == Doc("text", <<>>)

DiscoveryOutputs ==
    { Doc(k, <<>>) : k \in {"text", "nokey", "null", "number", "string",
                            "emptystring", "dict", "emptydict"} }
    \cup { Doc("list", l) : l \in SeqsUpTo(ManifestEntries, MaxManifests) }

\* ----------------------------------------------------------------- state
VARIABLES
    entry,          \* which function was called: "pull_uenv" | "run_command"
    pc,             \* position of the controlling process
    address,        \* argument source_address as passed by the caller
    pull_meta,      \* argument
    pull_sqfs,      \* argument
    total_mb,       \* target.size in MB
    is_tty,         \* terminal.is_tty()
    source_address, \* local: terms[0]
    tag,            \* local: terms[1]
    proc,           \* local: index into children, 0 while unbound
    stdout,         \* local: last stdout collected by communicate()
    stderr,         \* local: last stderr collected by communicate()
    digest,         \* local
    children,       \* every process handle created, in launch order
    meta_dir,       \* <image_path>/meta exists
    sqfs_file,      \* size of <image_path>/store.squashfs, or Absent
    ticks,          \* monitor loop iterations so far
    handler,        \* which except clause is running: "none" | "kbd" | "exc"
    interrupted,    \* a KeyboardInterrupt has been delivered
    log             \* observable effects, in order

vars == << entry, pc, address, pull_meta, pull_sqfs, total_mb, is_tty,
           source_address, tag, proc, stdout, stderr, digest,
           children, meta_dir, sqfs_file, ticks, handler, interrupted, log >>

args == << entry, address, pull_meta, pull_sqfs, total_mb, is_tty >>

\* --------------------------------------------------------------- helpers
Event(ev, what) ==
    [ev |-> ev, what |-> what, err |-> <<>>, hint |-> "", num |-> 0, den |-> 0]

Contains(s, w) == \E i \in 1..Len(s) : s[i] = w

\* str.rsplit(":", 1): split at the last ':' only.
RSplitAt(s) ==
    IF Contains(s, ":")
    THEN CHOOSE i \in 1..Len(s) :
            s[i] = ":" /\ \A j \in (i + 1)..Len(s) : s[j] # ":"
    ELSE 0

rsplit(s) ==
    IF RSplitAt(s) = 0 THEN << s >>
    ELSE << SubSeq(s, 1, RSplitAt(s) - 1), SubSeq(s, RSplitAt(s) + 1, Len(s)) >>

\* Mutant: the signature is looked for at the start of stderr only.
error_message_from_stderr_StartsWith(err) ==
    IF Len(err) > 0 /\ err[1] = "PERM" THEN "Hint" ELSE ""

error_message_from_stderr(err) ==
    IF Contains(err, "PERM") THEN "Hint" ELSE ""

\* terminal.error(msg): prints the message and ends the call (exits).
terminal_error(what, err, hint) ==
    [Event("error", what) EXCEPT !.err = err, !.hint = hint]

\* terminal.stdout("")
terminal_stdout == Event("stdout", "")

\* progress.progress_bar(p, ...): writes one progress line; p = num/den.
progress_bar(what, num, den) ==
    [Event("progress", what) EXCEPT !.num = num, !.den = den]

\* subprocess.Popen(...) as run_command_internal returns it, stdout and
\* stderr captured in pipes: pipe is the output written and not yet read,
\* blocked is set while the child waits in a write to a full pipe.
Popen(kind, ref) ==
    [kind |-> kind, ref |-> ref, alive |-> TRUE, rc |-> 0,
     awaited |-> FALSE, terminated |-> 0, signalled |-> FALSE,
     pipe |-> 0, blocked |-> FALSE]

Terminal == {"done", "exit", "crashed"}

Say(e) == log' = Append(log, e)

\* Popen.terminate(): a no-op once the child has exited, SIGTERM otherwise.
terminate(c) ==
    IF c.alive
    THEN [c EXCEPT !.signalled = TRUE, !.terminated = @ + 1]
    ELSE [c EXCEPT !.terminated = @ + 1]

\* Mutant: the result is collected without waiting for the child to exit.
CommunicateReady_NoWait(p) == p \in 1..Len(children)

\* proc.communicate() returns only once the child has exited.
CommunicateReady(p) == ~children[p].alive

\* Mutant: the exit code is not looked at.
Succeeded_Always(p) == p \in 1..Len(children)

\* Mutant: a child whose stderr shows the permission signature counts as
\* failed whatever its exit code.
Succeeded_CleanStderr(p) ==
    children[p].rc = 0 /\ ~Contains(stderr', "PERM")

\* proc.returncode == 0
Succeeded(p) == children[p].rc = 0

\* Mutant: an empty list falls back to a default digest instead of failing.
SelectDigest_DefaultOnEmpty(doc) ==
    CASE doc.kind \in {"text", "nokey", "null", "number", "string", "dict"}
            -> [kind |-> "raise", digest |-> ""]
      [] doc.kind \in {"emptystring", "emptydict"}
            -> [kind |-> "empty", digest |-> ""]
      [] doc.kind = "list" /\ Len(doc.list) = 0
            -> [kind |-> "digest", digest |-> "abc"]
      [] doc.kind = "list" /\ Len(doc.list) > 0 /\ doc.list[1] = "nodigest"
            -> [kind |-> "raise", digest |-> ""]
      [] OTHER
            -> [kind |-> "digest", digest |-> doc.list[1]]

\* Mutant: the last manifest is selected, manifests[-1].
SelectDigest_Last(doc) ==
    CASE doc.kind \in {"text", "nokey", "null", "number", "string", "dict"}
            -> [kind |-> "raise", digest |-> ""]
      [] doc.kind \in {"emptystring", "emptydict"}
            -> [kind |-> "empty", digest |-> ""]
      [] doc.kind = "list" /\ Len(doc.list) = 0
            -> [kind |-> "empty", digest |-> ""]
      [] doc.kind = "list" /\ Len(doc.list) > 0
                           /\ doc.list[Len(doc.list)] = "nodigest"
            -> [kind |-> "raise", digest |-> ""]
      [] OTHER
            -> [kind |-> "digest", digest |-> doc.list[Len(doc.list)]]

\* json.loads(stdout)["manifests"], len(manifests), manifests[0]["digest"]
\* (lines 94-98): "raise" for any of the exceptions these lines can raise,
\* "empty" when len(manifests) == 0, else the digest selected.
SelectDigest(doc) ==
    CASE doc.kind \in {"text", "nokey", "null", "number", "string", "dict"}
            -> [kind |-> "raise", digest |-> ""]
      [] doc.kind \in {"emptystring", "emptydict"}
            -> [kind |-> "empty", digest |-> ""]
      [] doc.kind = "list" /\ Len(doc.list) = 0
            -> [kind |-> "empty", digest |-> ""]
      [] doc.kind = "list" /\ Len(doc.list) > 0 /\ doc.list[1] = "nodigest"
            -> [kind |-> "raise", digest |-> ""]
      [] OTHER
            -> [kind |-> "digest", digest |-> doc.list[1]]

\* ------------------------------------------------------------------ Init
Init ==
    /\ entry \in {"pull_uenv", "run_command"}
    /\ address \in Addresses
    /\ pull_meta \in BOOLEAN
    /\ pull_sqfs \in BOOLEAN
    /\ total_mb \in Totals
    /\ is_tty \in BOOLEAN
    /\ meta_dir \in BOOLEAN
    /\ sqfs_file \in {Absent, 2}
    \* the address with a ':' in its base is tried on calls for one component
    /\ (pull_meta /\ pull_sqfs) => address # <<"r", ":", "p", ":", "t">>
    /\ entry = "run_command" =>
          /\ address = <<"r", ":", "t">>
          /\ ~pull_meta /\ ~pull_sqfs /\ total_mb = 0 /\ ~is_tty
          /\ ~meta_dir /\ sqfs_file = Absent
    /\ pc = IF entry = "pull_uenv" THEN "split" ELSE "rc_launch"
    /\ source_address = <<>>
    /\ tag = <<>>
    /\ proc = 0
    /\ stdout = NoDoc
    /\ stderr = <<>>
    /\ digest = ""
    /\ children = <<>>
    /\ ticks = 0
    /\ handler = "none"
    /\ interrupted = FALSE
    /\ log = <<>>

\* --------------------------------------------------- control-flow helpers
\* An exception of class Exception raised inside the try body.
Raise ==
    /\ handler' = "exc"
    /\ pc' = "except"

\* terminal.error(...) called from the try body.
Fail(what, err, hint) ==
    /\ Say(terminal_error(what, err, hint))
    /\ pc' = "exit"

\* run_command_internal(args), lines 31-47: the handle on success, the
\* "unknown error" report when the executable cannot be started.
run_command_internal(kind, ref, next) ==
    \/ /\ children' = Append(children, Popen(kind, ref))
       /\ proc' = Len(children) + 1
       /\ Say(Event("launch", kind))
       /\ pc' = next
    \/ /\ Fail("an unknown error occured with the oras client", <<>>, "")
       /\ UNCHANGED << children, proc >>

\* stdout, stderr = proc.communicate()
communicate(out) ==
    /\ CommunicateReady(proc)
    /\ children' = [children EXCEPT ![proc].awaited = TRUE, ![proc].pipe = 0]
    /\ stdout' = out
    /\ stderr' \in Stderrs

\* --------------------------------------------------- pull_uenv, try body
\* lines 74-76
Split ==
    /\ pc = "split"
    /\ IF Len(rsplit(address)) < 2
       THEN Raise /\ UNCHANGED << source_address, tag >>
       ELSE /\ source_address' = rsplit(address)[1]
            /\ tag' = rsplit(address)[2]
            /\ pc' = IF pull_meta THEN "meta_cleanup" ELSE "sqfs_cleanup"
            /\ UNCHANGED handler
    /\ UNCHANGED << args, proc, stdout, stderr, digest, children,
                    meta_dir, sqfs_file, ticks, interrupted, log >>

\* lines 78-81
MetaCleanup ==
    /\ pc = "meta_cleanup"
    /\ IF meta_dir
       THEN meta_dir' = FALSE /\ Say(Event("rmtree", "meta"))
       ELSE UNCHANGED << meta_dir, log >>
    /\ pc' = "discover_launch"
    /\ UNCHANGED << args, source_address, tag, proc, stdout, stderr, digest, children, sqfs_file, ticks, handler, interrupted >>

\* line 86
DiscoverLaunch ==
    /\ pc = "discover_launch"
    /\ run_command_internal("discover", source_address \o <<":">> \o tag,
                            "discover_wait")
    /\ UNCHANGED << args, source_address, tag, stdout, stderr, digest, meta_dir, sqfs_file, ticks, handler, interrupted >>

\* lines 87-92
DiscoverCollect ==
    /\ pc = "discover_wait"
    /\ \E out \in DiscoveryOutputs : communicate(out)
    /\ IF Succeeded(proc)
       THEN pc' = "parse" /\ UNCHANGED log
       ELSE Fail("failed to find meta data", stderr',
                 error_message_from_stderr(stderr'))
    /\ UNCHANGED << args, source_address, tag, proc, digest,
                    meta_dir, sqfs_file, ticks, handler, interrupted >>

\* lines 94-99; the local manifests is stdout.list, read only here.
Parse ==
    /\ pc = "parse"
    /\ CASE SelectDigest(stdout).kind = "raise" ->
              Raise /\ UNCHANGED << digest, log >>
         [] SelectDigest(stdout).kind = "empty" ->
              Fail("no meta data is available", <<>>, "")
              /\ UNCHANGED << digest, handler >>
         [] OTHER ->
              /\ digest' = SelectDigest(stdout).digest
              /\ pc' = "meta_launch"
              /\ UNCHANGED << handler, log >>
    /\ UNCHANGED << args, source_address, tag, proc, stdout, stderr, children,
                    meta_dir, sqfs_file, ticks, interrupted >>

\* line 101
MetaLaunch ==
    /\ pc = "meta_launch"
    /\ run_command_internal("meta", source_address \o <<"@", digest>>,
                            "meta_wait")
    /\ UNCHANGED << args, source_address, tag, stdout, stderr, digest, meta_dir, sqfs_file, ticks, handler, interrupted >>

\* line 102: the result is collected and not looked at.
MetaCollect ==
    /\ pc = "meta_wait"
    /\ communicate(NoDoc)
    /\ pc' = "sqfs_cleanup"
    /\ UNCHANGED << args, source_address, tag, proc, digest,
                    meta_dir, sqfs_file, ticks, handler, interrupted, log >>

\* Mutant: the existing store.squashfs is left in place.
SqfsCleanup_KeepsFile ==
    /\ pc = "sqfs_cleanup"
    /\ pc' = IF pull_sqfs THEN "sqfs_launch" ELSE "done"
    /\ UNCHANGED << args, source_address, tag, proc, stdout, stderr, digest,
                    children, meta_dir, sqfs_file, ticks, handler,
                    interrupted, log >>

\* Mutant: the sqfs component is pulled whether it was asked for or not.
SqfsCleanup_IgnoresFlag ==
    /\ pc = "sqfs_cleanup"
    /\ pc' = "sqfs_launch"
    /\ IF sqfs_file # Absent
       THEN sqfs_file' = Absent /\ Say(Event("remove", "sqfs"))
       ELSE UNCHANGED << sqfs_file, log >>
    /\ UNCHANGED << args, source_address, tag, proc, stdout, stderr, digest,
                    children, meta_dir, ticks, handler, interrupted >>

\* lines 104-108
SqfsCleanup ==
    /\ pc = "sqfs_cleanup"
    /\ IF ~pull_sqfs
       THEN pc' = "done" /\ UNCHANGED << sqfs_file, log >>
       ELSE /\ pc' = "sqfs_launch"
            /\ IF sqfs_file # Absent
               THEN sqfs_file' = Absent /\ Say(Event("remove", "sqfs"))
               ELSE UNCHANGED << sqfs_file, log >>
    /\ UNCHANGED << args, source_address, tag, proc, stdout, stderr, digest, children, meta_dir, ticks, handler, interrupted >>

\* lines 113-115
SqfsLaunch ==
    /\ pc = "sqfs_launch"
    /\ run_command_internal("sqfs", source_address \o <<":">> \o tag, "poll")
    /\ UNCHANGED << args, source_address, tag, stdout, stderr, digest, meta_dir, sqfs_file, ticks, handler, interrupted >>

\* line 116: while proc.poll() is None
Poll ==
    /\ pc = "poll"
    /\ IF children[proc].alive
       THEN ticks < MaxTicks /\ ticks' = ticks + 1 /\ pc' = "tick"
       ELSE ticks' = ticks /\ pc' = "collect"
    /\ UNCHANGED << args, source_address, tag, proc, stdout, stderr, digest, children, meta_dir, sqfs_file, handler,
                    interrupted, log >>

\* lines 117-118: sleep, then os.path.exists(sqfs_path) and is_tty()
Tick ==
    /\ pc = "tick"
    /\ pc' = IF sqfs_file # Absent /\ is_tty THEN "getsize" ELSE "poll"
    /\ UNCHANGED << args, source_address, tag, proc, stdout, stderr, digest, children, meta_dir, sqfs_file, ticks, handler,
                    interrupted, log >>

\* lines 119-123: os.path.getsize raises when the file is gone, the division
\* raises when total_mb is 0.
Render ==
    /\ pc = "getsize"
    /\ IF sqfs_file = Absent \/ total_mb = 0
       THEN Raise /\ UNCHANGED log
       ELSE /\ Say(progress_bar("tick", sqfs_file, total_mb))
            /\ pc' = "poll"
            /\ UNCHANGED handler
    /\ UNCHANGED << args, source_address, tag, proc, stdout, stderr, digest, children, meta_dir, sqfs_file, ticks, interrupted >>

\* lines 124-132
SqfsCollect ==
    /\ pc = "collect"
    /\ communicate(NoDoc)
    /\ IF Succeeded(proc)
       THEN /\ log' = log \o << progress_bar("final", 1, 1), terminal_stdout >>
            /\ pc' = "done"
       ELSE Fail("image pull failed", stderr',
                 error_message_from_stderr(stderr'))
    /\ UNCHANGED << args, source_address, tag, proc, digest,
                    meta_dir, sqfs_file, ticks, handler, interrupted >>

\* -------------------------------------------------- run_command, try body
\* line 56
RcLaunch ==
    /\ pc = "rc_launch"
    /\ run_command_internal("command", <<>>, "rc_wait")
    /\ UNCHANGED << args, source_address, tag, stdout, stderr, digest, meta_dir, sqfs_file, ticks, handler, interrupted >>

\* lines 57-62
RcCollect ==
    /\ pc = "rc_wait"
    /\ communicate(NoDoc)
    /\ IF Succeeded(proc)
       THEN pc' = "done" /\ UNCHANGED log
       ELSE Fail("oras command failed", stderr',
                 error_message_from_stderr(stderr'))
    /\ UNCHANGED << args, source_address, tag, proc, digest,
                    meta_dir, sqfs_file, ticks, handler, interrupted >>

\* ------------------------------------------------------- except clauses
\* The positions of the try bodies (lines 73-132 and 55-62).
TryBody ==
    {"split", "meta_cleanup", "discover_launch", "discover_wait", "parse",
     "meta_launch", "meta_wait", "sqfs_cleanup", "sqfs_launch", "poll", "tick",
     "getsize", "collect", "rc_launch", "rc_wait"}

\* A KeyboardInterrupt is delivered while the try body runs.
Interrupt ==
    /\ pc \in TryBody
    /\ ~interrupted
    /\ interrupted' = TRUE
    /\ handler' = "kbd"
    /\ pc' = "except"
    /\ UNCHANGED << args, source_address, tag, proc, stdout, stderr, digest, children, meta_dir, sqfs_file, ticks, log >>

\* lines 135, 139 (64, 67): proc.terminate(); with proc never assigned the
\* name lookup raises UnboundLocalError out of the except clause.
HandlerTerminate ==
    /\ pc = "except"
    /\ IF proc = 0
       THEN pc' = "crashed" /\ UNCHANGED << children, log >>
       ELSE /\ children' = [children EXCEPT ![proc] = terminate(@)]
            /\ Say(Event("terminate", children[proc].kind))
            /\ pc' = IF entry = "pull_uenv" THEN "except_stdout"
                     ELSE "except_error"
    /\ UNCHANGED << args, source_address, tag, proc, stdout, stderr, digest, meta_dir, sqfs_file, ticks, handler, interrupted >>

\* lines 136, 140
HandlerStdout ==
    /\ pc = "except_stdout"
    /\ Say(terminal_stdout)
    /\ pc' = "except_error"
    /\ UNCHANGED << args, source_address, tag, proc, stdout, stderr, digest, children, meta_dir, sqfs_file, ticks, handler,
                    interrupted >>

\* The message of the except clause that is running.
HandlerMessage ==
    CASE entry = "pull_uenv" /\ handler = "kbd" ->
            "image pull cancelled by user"
      [] entry = "pull_uenv" /\ handler # "kbd" ->
            "image pull failed with unknown exception"
      [] entry # "pull_uenv" /\ handler = "kbd" ->
            "oras command cancelled by user"
      [] OTHER ->
            "oras command failed with unknown exception"

\* lines 137, 141 (65, 68)
HandlerError ==
    /\ pc = "except_error"
    /\ Fail(HandlerMessage, <<>>, "")
    /\ UNCHANGED << args, source_address, tag, proc, stdout, stderr, digest, children, meta_dir, sqfs_file, ticks, handler,
                    interrupted >>

\* ------------------------------------------------------ child processes
\* The exit codes a child can end with: 0, nonzero, and death by the
\* termination signal once one was sent.
ExitCodes(c) == IF c.signalled THEN {0, 1, -15} ELSE {0, 1}

\* A child blocked in a write cannot run to its exit; a signal can end it.
ChildExit ==
    /\ \E i \in 1..Len(children) :
          /\ children[i].alive
          /\ ~children[i].blocked \/ children[i].signalled
          /\ \E rc \in ExitCodes(children[i]) :
                children' = [children EXCEPT ![i].alive = FALSE, ![i].rc = rc]
    /\ UNCHANGED << args, pc, source_address, tag, proc, stdout, stderr,
                    digest, meta_dir, sqfs_file, ticks, handler,
                    interrupted, log >>

\* A child writes to its captured stdout or stderr: into the pipe while
\* there is room, else the write blocks until the parent reads.
ChildWritePipe ==
    /\ \E i \in 1..Len(children) :
          /\ children[i].alive
          /\ ~children[i].blocked
          /\ children' =
                IF children[i].pipe < PipeCap
                THEN [children EXCEPT ![i].pipe = @ + 1]
                ELSE [children EXCEPT ![i].blocked = TRUE]
    /\ UNCHANGED << args, pc, source_address, tag, proc, stdout, stderr,
                    digest, meta_dir, sqfs_file, ticks, handler,
                    interrupted, log >>

\* The positions inside a blocking proc.communicate() (lines 57, 87, 102).
CommunicatePcs == {"rc_wait", "discover_wait", "meta_wait"}

\* proc.communicate() reads both pipes while it waits for the child.
CommunicateRead ==
    /\ pc \in CommunicatePcs
    /\ children[proc].pipe > 0
    /\ children' = [children EXCEPT ![proc].pipe = 0, ![proc].blocked = FALSE]
    /\ UNCHANGED << args, pc, source_address, tag, proc, stdout, stderr,
                    digest, meta_dir, sqfs_file, ticks, handler,
                    interrupted, log >>

\* The sqfs pull child writes, truncates or removes store.squashfs.
ChildWriteSqfs ==
    /\ \E i \in 1..Len(children) :
          children[i].alive /\ children[i].kind = "sqfs"
    /\ sqfs_file' \in ({Absent} \cup Sizes) \ {sqfs_file}
    /\ UNCHANGED << args, pc, source_address, tag, proc, stdout, stderr,
                    digest, children, meta_dir, ticks, handler,
                    interrupted, log >>

\* The meta pull child creates the meta directory.
ChildWriteMeta ==
    /\ \E i \in 1..Len(children) :
          children[i].alive /\ children[i].kind = "meta"
    /\ ~meta_dir
    /\ meta_dir' = TRUE
    /\ UNCHANGED << args, pc, source_address, tag, proc, stdout, stderr,
                    digest, children, sqfs_file, ticks, handler,
                    interrupted, log >>

\* ------------------------------------------------------------------ Next
Next ==
    \/ Split
    \/ MetaCleanup
    \/ DiscoverLaunch
    \/ DiscoverCollect
    \/ Parse
    \/ MetaLaunch
    \/ MetaCollect
    \/ SqfsCleanup
    \/ SqfsLaunch
    \/ Poll
    \/ Tick
    \/ Render
    \/ SqfsCollect
    \/ RcLaunch
    \/ RcCollect
    \/ Interrupt
    \/ HandlerTerminate
    \/ HandlerStdout
    \/ HandlerError
    \/ ChildExit
    \/ ChildWritePipe
    \/ CommunicateRead
    \/ ChildWriteSqfs
    \/ ChildWriteMeta

Spec == Init /\ [][Next]_vars

\* ================================================================ claims
Transfers == {"meta", "sqfs"}

Reported(what) ==
    \E k \in 1..Len(log) : log[k].ev = "error" /\ log[k].what = what

ProgressLines == { k \in 1..Len(log) : log[k].ev = "progress" }

HandlerPcs == {"except", "except_stdout", "except_error"}

\* The discovery child has been collected.
DiscoveryCollected ==
    /\ Len(children) >= 1
    /\ children[1].kind = "discover"
    /\ children[1].awaited

\* stdout still holds the discovery response (no later child was collected).
HoldsDiscoveryOutput ==
    /\ DiscoveryCollected
    /\ \A i \in 2..Len(children) : ~children[i].awaited

\* C1: in pull_uenv, once a transfer child (meta pull or sqfs pull) has
\* exited with a code other than 0 and no interrupt was delivered, no
\* further child is launched, the call does not return normally, and when
\* it ends it ends with a failure whose message carries the child's stderr.
C1_FailedTransferIsFatal ==
    \A i \in 1..Len(children) :
        ( /\ children[i].kind \in Transfers
          /\ children[i].awaited
          /\ children[i].rc # 0
          /\ ~interrupted )
        => /\ Len(children) = i
           /\ pc # "done"
           /\ pc \in Terminal =>
                 /\ Len(log) > 0
                 /\ log[Len(log)].ev = "error"
                 /\ log[Len(log)].err = stderr

\* C2: once the 'cancelled by user' error of pull_uenv has been reported,
\* every transfer child has exited (poll() would not return None).
C2_ChildExitedBeforeCancelReported ==
    Reported("image pull cancelled by user")
    => \A i \in 1..Len(children) :
           children[i].kind \in Transfers => ~children[i].alive

\* C3: a pull_uenv call that was interrupted ends only by reporting the
\* 'cancelled by user' failure, right after a trailing newline, with the
\* running child (if any) sent terminate; it never ends any other way.
C3_InterruptAlwaysCancels ==
    (entry = "pull_uenv" /\ interrupted /\ pc \in Terminal)
    => /\ pc = "exit"
       /\ Len(log) >= 2
       /\ log[Len(log)] =
             terminal_error("image pull cancelled by user", <<>>, "")
       /\ log[Len(log) - 1] = terminal_stdout
       /\ \A i \in 1..Len(children) :
             children[i].alive => children[i].signalled

\* C4: when pull_uenv has ended, every handle was either awaited and never
\* terminated, or terminated exactly once and never awaited.
C4_HandleAwaitedOrTerminatedOnce ==
    (entry = "pull_uenv" /\ pc \in Terminal)
    => \A i \in 1..Len(children) :
           \/ children[i].awaited /\ children[i].terminated = 0
           \/ ~children[i].awaited /\ children[i].terminated = 1

\* C5: after a discovery child that exited 0 with an empty manifest list,
\* no transfer child is ever launched and the call fails: it is at the
\* check, in an except clause, or has ended with a failure, which without
\* an interrupt is "no meta data is available".
C5_EmptyManifestListFails ==
    ( /\ HoldsDiscoveryOutput
      /\ children[1].rc = 0
      /\ stdout = Doc("list", <<>>) )
    => /\ Len(children) = 1
       /\ pc \in {"parse", "exit"} \cup HandlerPcs
       /\ (pc = "exit" /\ ~interrupted)
             => Reported("no meta data is available")

C5_Witness ==
    /\ DiscoveryCollected
    /\ children[1].rc = 0
    /\ stdout = Doc("list", <<>>)
    /\ pull_sqfs
    /\ pc = "exit"
    /\ Reported("no meta data is available")

MalformedKinds ==
    {"text", "nokey", "null", "number", "string", "emptystring", "dict",
     "emptydict"}

\* C6: after a discovery child that exited nonzero, or whose stdout is
\* malformed, discovery is not run again and no transfer child is launched;
\* a nonzero exit ends the call at once, a malformed response ends it
\* through the check or an except clause.
C6_DiscoveryFailureAborts ==
    ( /\ HoldsDiscoveryOutput
      /\ (children[1].rc # 0 \/ stdout.kind \in MalformedKinds) )
    => /\ Len(children) = 1
       /\ pc \in {"parse", "exit"} \cup HandlerPcs
       /\ children[1].rc # 0 => pc = "exit"
       /\ pc = "exit" => Len(log) > 0 /\ log[Len(log)].ev = "error"

C6_Witness ==
    /\ DiscoveryCollected
    /\ children[1].rc # 0
    /\ stdout.kind = "list"
    /\ Len(stdout.list) > 0
    /\ stdout.list[1] \in Digests
    /\ pull_sqfs
    /\ ~interrupted
    /\ pc = "exit"
    /\ Reported("failed to find meta data")

\* b is the address a without its tag: a = b ":" tag with no ':' in tag.
IsBaseOf(b, a) ==
    \E n \in 1..Len(a) :
        /\ a[n] = ":"
        /\ \A j \in (n + 1)..Len(a) : a[j] # ":"
        /\ Len(b) = n - 1
        /\ \A j \in 1..(n - 1) : b[j] = a[j]

\* C7: the meta pull is launched against base@D, D the digest of the first
\* manifest of the discovery response and base the input address without
\* its tag.
C7_FirstManifestSelected ==
    \A i \in 1..Len(children) :
        (children[i].kind = "meta" /\ HoldsDiscoveryOutput)
        => /\ stdout.kind = "list"
           /\ Len(stdout.list) >= 1
           /\ Len(children[i].ref) >= 2
           /\ children[i].ref[Len(children[i].ref)] = stdout.list[1]
           /\ children[i].ref[Len(children[i].ref) - 1] = "@"
           /\ IsBaseOf(SubSeq(children[i].ref, 1, Len(children[i].ref) - 2),
                       address)

C7_Witness ==
    /\ Len(children) = 2
    /\ children[2].kind = "meta"
    /\ HoldsDiscoveryOutput
    /\ stdout = Doc("list", <<"def", "abc">>)
    /\ address = <<"r", ":", "p", ":", "t">>
    /\ children[2].ref = <<"r", ":", "p", "@", "def">>

\* C8: with standard output not a terminal, pull_uenv emits no progress
\* line.
C8_NoProgressWithoutTty ==
    (entry = "pull_uenv" /\ ~is_tty) => ProgressLines = {}

\* C9: without an interrupt, the sqfs child is never terminated by the
\* orchestrator, and the call ends in success exactly when the child exited
\* with code 0.
C9_MonitorNeverDecides ==
    \A i \in 1..Len(children) :
        (children[i].kind = "sqfs" /\ ~interrupted)
        => /\ children[i].terminated = 0
           /\ pc \in Terminal =>
                 (pc = "done" <=> (~children[i].alive /\ children[i].rc = 0))

\* C10: a child is launched only after every earlier child has exited, so
\* at most one child is alive.
C10_OneChildAtATime ==
    /\ \A i, j \in 1..Len(children) : i < j => ~children[i].alive
    /\ Cardinality({ i \in 1..Len(children) : children[i].alive }) <= 1

C10_Witness ==
    /\ Len(children) = 3
    /\ children[3].kind = "sqfs"
    /\ children[3].alive
    /\ pc = "tick"

\* C11: a pull_uenv call whose source address has no ':' and that was not
\* interrupted ends by reporting a failure (it does not end with an error
\* escaping the call), with no child launched and no local state removed.
C11_AddressWithoutTagRejected ==
    ( /\ entry = "pull_uenv"
      /\ \A n \in 1..Len(address) : address[n] # ":"
      /\ ~interrupted )
    => /\ children = <<>>
       /\ \A k \in 1..Len(log) : log[k].ev \notin {"rmtree", "remove", "launch"}
       /\ pc \in Terminal =>
             /\ pc = "exit"
             /\ Len(log) > 0
             /\ log[Len(log)].ev = "error"

\* The failures reported where the outcome of a child is classified, by the
\* kind of child they are about.
Classified(kind) ==
    CASE kind = "command" -> "oras command failed"
      [] kind = "discover" -> "failed to find meta data"
      [] kind = "sqfs" -> "image pull failed"
      [] OTHER -> "none"

\* C12: every classified failure carries the collected stderr unchanged and
\* carries the permission hint exactly when that stderr contains the
\* permission signature (no hint text otherwise); and every nonzero exit of
\* a command, discovery or sqfs child that was collected is reported so.
C12_ClassifiedFailureMessage ==
    /\ \A k \in 1..Len(log) :
          ( /\ log[k].ev = "error"
            /\ log[k].what \in { Classified(c) : c \in {"command", "discover",
                                                       "sqfs"} } )
          => /\ log[k].err = stderr
             /\ log[k].hint = "Hint" <=>
                   \E n \in 1..Len(log[k].err) : log[k].err[n] = "PERM"
             /\ log[k].hint \in {"Hint", ""}
    /\ \A i \in 1..Len(children) :
          ( /\ children[i].kind \in {"command", "discover", "sqfs"}
            /\ children[i].awaited
            /\ children[i].rc # 0 )
          => /\ Reported(Classified(children[i].kind))
             /\ pc = "exit"

C12_Witness ==
    /\ pc = "exit"
    /\ Len(children) = 3
    /\ children[3].kind = "sqfs"
    /\ children[3].rc = 1
    /\ stderr = <<"x", "PERM">>
    /\ log[Len(log)] =
          terminal_error("image pull failed", <<"x", "PERM">>, "Hint")

\* C13: a command, discovery or sqfs child collected with exit code 0 is
\* never reported as failed, whatever its stderr: run_command and the sqfs
\* transfer return normally, and after discovery the orchestrator goes on to
\* read the response and launch the meta pull.
C13_ExitZeroIsSuccess ==
    \A i \in 1..Len(children) :
        ( /\ children[i].kind \in {"command", "discover", "sqfs"}
          /\ children[i].awaited
          /\ children[i].rc = 0 )
        => /\ ~Reported(Classified(children[i].kind))
           /\ children[i].kind \in {"command", "sqfs"} => pc = "done"
           /\ ( /\ children[i].kind = "discover"
                /\ Len(children) = 1
                /\ ~interrupted
                /\ stdout.kind = "list"
                /\ Len(stdout.list) > 0
                /\ stdout.list[1] \in Digests )
              => \/ pc \in {"parse", "meta_launch"}
                 \/ /\ pc = "exit"
                    /\ Reported("an unknown error occured with the oras client")

C13_Witness ==
    /\ pc = "done"
    /\ Len(children) = 3
    /\ children[1].rc = 0
    /\ children[3].kind = "sqfs"
    /\ children[3].awaited
    /\ children[3].rc = 0
    /\ stderr = <<"x", "PERM">>

FinalLines ==
    { k \in ProgressLines : log[k].what = "final" }

\* C14: the final progress line is a 100% line, is rendered at most once,
\* after every other progress line and right before the trailing newline
\* that ends the output, and only for an sqfs child collected with exit
\* code 0; an sqfs child collected has such a line exactly when it exited 0.
C14_FinalLineOnceAfterSuccess ==
    /\ Cardinality(FinalLines) <= 1
    /\ \A k \in FinalLines :
          /\ log[k].num = log[k].den
          /\ k = Len(log) - 1
          /\ log[k + 1] = terminal_stdout
          /\ \A j \in ProgressLines : j <= k
          /\ proc \in 1..Len(children)
          /\ children[proc].kind = "sqfs"
          /\ children[proc].awaited
          /\ ~children[proc].alive
          /\ children[proc].rc = 0
    /\ \A i \in 1..Len(children) :
          (children[i].kind = "sqfs" /\ children[i].awaited)
          => (children[i].rc = 0 <=> FinalLines # {})

C14_Witness ==
    /\ pc = "done"
    /\ is_tty
    /\ Cardinality(ProgressLines) = 3
    /\ Cardinality(FinalLines) = 1
    /\ log[Len(log)] = terminal_stdout

Launched(kind) == \E i \in 1..Len(children) : children[i].kind = kind

\* C16: the meta directory is absent when the discovery child is launched
\* and stays absent until the meta pull is launched; store.squashfs is
\* absent when the sqfs pull is launched; every removal comes before the
\* launches of its component; and store.squashfs only comes into existence
\* again while an sqfs child is running or was run, so no file sampled by
\* the monitor is one left by an earlier pull.
C16_CleanupBeforeLaunch ==
    /\ [] /\ pc = "discover_launch" => ~meta_dir
          /\ (Launched("discover") /\ ~Launched("meta")) => ~meta_dir
          /\ pc = "sqfs_launch" => sqfs_file = Absent
          /\ \A k \in 1..Len(log) :
                /\ log[k] = Event("rmtree", "meta")
                      => \A j \in 1..k : log[j].ev # "launch"
                /\ log[k] = Event("remove", "sqfs")
                      => \A j \in 1..k : log[j] # Event("launch", "sqfs")
    /\ [][ (sqfs_file' # Absent /\ sqfs_file' # sqfs_file)
              => Launched("sqfs") ]_vars
    /\ [][ (Launched("sqfs")' /\ ~Launched("sqfs"))
              => sqfs_file = Absent /\ sqfs_file' = Absent ]_vars

C16_Witness ==
    /\ pc = "getsize"
    /\ Launched("discover")
    /\ Launched("sqfs")
    /\ sqfs_file = 1
    /\ \E k \in 1..Len(log) : log[k] = Event("rmtree", "meta")
    /\ \E k \in 1..Len(log) : log[k] = Event("remove", "sqfs")

\* C17: with pull_meta false nothing of the meta component is removed or
\* launched; with pull_sqfs false store.squashfs is not removed, no sqfs
\* pull is launched and no progress line is written; with both false no
\* child is launched and a call with a tagged address that is not
\* interrupted returns normally.
C17_UnrequestedComponentUntouched ==
    entry = "pull_uenv"
    => /\ ~pull_meta =>
             /\ ~Launched("discover") /\ ~Launched("meta")
             /\ \A k \in 1..Len(log) : log[k].ev # "rmtree"
       /\ ~pull_sqfs =>
             /\ ~Launched("sqfs")
             /\ \A k \in 1..Len(log) : log[k].ev # "remove"
             /\ ProgressLines = {}
       /\ (~pull_meta /\ ~pull_sqfs) =>
             /\ children = <<>>
             /\ ( /\ pc \in Terminal
                  /\ ~interrupted
                  /\ \E n \in 1..Len(address) : address[n] = ":" )
                => pc = "done"

C17_Witness ==
    /\ entry = "pull_uenv"
    /\ ~pull_meta
    /\ ~pull_sqfs
    /\ pc = "done"
    /\ meta_dir
    /\ sqfs_file = 2
    /\ log = <<>>

\* C15: while the monitor loop is polling, the sqfs child is never kept
\* from running to its exit by the orchestrator: it is never stuck in a
\* write to a captured pipe that the polling parent does not read.
C15_MonitorNeverBlocksChild ==
    \A i \in 1..Len(children) :
        (children[i].kind = "sqfs" /\ pc \in {"poll", "tick", "getsize"})
        => ~children[i].blocked

====
